---- MODULE Spec2Model ----
(***************************************************************************)
(* Model of prow/spyglass/artifacts.go: Spyglass.ListArtifacts,            *)
(* Spyglass.prowToGCS, Spyglass.FetchArtifacts and splitSrc.               *)
(*                                                                         *)
(* Strings that the code parses (src, key, job URL, URL prefix) are        *)
(* sequences of one-character strings, so that strings.SplitN,             *)
(* strings.Split, strings.HasPrefix, strings.TrimSuffix and slicing are    *)
(* computed on the characters.  Artifact names are only ever compared with *)
(* "build-log.txt" and are kept as atoms.                                  *)
(*                                                                         *)
(* The collaborators (jobAgent.GetProwJob, config(), GCSArtifactFetcher,   *)
(* PodLogArtifactFetcher, Artifact.Size) are outside the file: every       *)
(* answer they can give is a nondeterministic choice in the step that      *)
(* calls them.  The variable calls records each collaborator call with its *)
(* arguments and its answer; logs records the logrus output.               *)
(***************************************************************************)
EXTENDS Integers, Sequences, FiniteSets, TLC

\* ---- bounds of the model ------------------------------------------------
MaxKeyLen == 4
MaxUrlLen == 3
MaxNames == 2
MaxList == 2

Sep == "/"
LogName == "build-log.txt"

SeqsUpTo(S, n) == UNION {[1..k -> S] : k \in 0..n}

KeyChars == {Sep, "j"}
UrlChars == {"u", "b"}
Names == {"a.txt", LogName}

\* the two key types of the package, and two tags that are neither
gcsKeyType == <<"g", "c", "s">>
prowKeyType == <<"p", "r", "o", "w", "j", "o", "b">>
KeyTypes == {gcsKeyType, prowKeyType, <<"x">>, <<>>}

Keys == SeqsUpTo(KeyChars, MaxKeyLen)
\* references: <kind>/<key>, and strings without any separator
Srcs == {kt \o <<Sep>> \o k : kt \in KeyTypes, k \in Keys} \cup {<<>>, gcsKeyType, prowKeyType, <<"x">>}
\* references of the calls that are made twice
RepeatSrcs ==
    { <<>>, <<"x", Sep, "j">>,
      gcsKeyType \o <<Sep, "j", Sep, "j">>, gcsKeyType \o <<Sep, "j", Sep>>,
      prowKeyType \o <<Sep, "j", Sep, "j">>, prowKeyType \o <<Sep, "j">> }
URLs == SeqsUpTo(UrlChars, MaxUrlLen)
Prefixes == {<<>>, <<"u">>, <<"u", "b">>}
NameLists == SeqsUpTo(Names, MaxNames)
\* a storage listing names each object once
Listings == {l \in SeqsUpTo(Names, MaxList) : \A i, j \in 1..Len(l) : l[i] = l[j] => i = j}

\* ---- string functions of the Go library ---------------------------------
\* strings.Index(s, "/") + 1, 0 when absent
Index(s) == IF \E i \in 1..Len(s) : s[i] = Sep THEN CHOOSE i \in 1..Len(s) : s[i] = Sep /\ \A j \in 1..(i-1) : s[j] # Sep ELSE 0

\* strings.SplitN(s, "/", 2)
SplitN(s) == LET idx == Index(s) IN IF idx = 0 THEN <<s>> ELSE <<SubSeq(s, 1, idx - 1), SubSeq(s, idx + 1, Len(s))>>

\* strings.Split(s, "/")
RECURSIVE Split(_)
Split(s) == LET idx == Index(s) IN IF idx = 0 THEN <<s>> ELSE <<SubSeq(s, 1, idx - 1)>> \o Split(SubSeq(s, idx + 1, Len(s)))

\* strings.HasPrefix(s, p)
HasPrefix(s, p) == Len(p) <= Len(s) /\ \A i \in 1..Len(p) : s[i] = p[i]

\* variant: the trailing separator is kept
TrimSuffix_Kept(s) == s

\* strings.TrimSuffix(s, "/")
TrimSuffix(s) == IF Len(s) > 0 /\ s[Len(s)] = Sep THEN SubSeq(s, 1, Len(s) - 1) ELSE s

\* ---- splitSrc -------------------------------------------------------------
\* variant: a reference without separator is taken as a key type with an empty key
splitSrc_NoErr(s) == [keyType |-> SplitN(s)[1], key |-> IF Len(SplitN(s)) < 2 THEN <<>> ELSE SplitN(s)[2], err |-> FALSE]

splitSrc(s) == LET split == SplitN(s) IN IF Len(split) < 2 THEN [keyType |-> <<>>, key |-> <<>>, err |-> TRUE] ELSE [keyType |-> split[1], key |-> split[2], err |-> FALSE]


\* ---- state ------------------------------------------------------------------
VARIABLES
    op,            \* "", "List" or "Fetch": the call in progress
    src,           \* argument src
    names,         \* argument artifactNames of FetchArtifacts
    pc,            \* position of the call in progress
    keyType, key,  \* results of splitSrc
    gcsKey, jobName, buildID,
    url, prefix, pPath, pErr,   \* prowToGCS: locals url, prefix and the returned (string, error)
    i,             \* index of the range loop over artifactNames
    art,           \* handle returned by GCSArtifactFetcher.artifact
    arts, podLogNeeded,
    ret, retErr,   \* returned values; retErr = "" is a nil error
    calls,         \* collaborator calls made by the call in progress
    logs,          \* logrus output of the call in progress
    prev           \* arguments, collaborator calls and result of the call before (SpecRepeat only)

vars == <<op, src, names, pc, keyType, key, gcsKey, jobName, buildID, url, prefix, pPath, pErr, i, art, arts, podLogNeeded, ret, retErr, calls, logs, prev>>

prowVars == <<url, prefix, pPath, pErr>>
argVars == <<op, src, names, prev>>
loopVars == <<i, art, arts, podLogNeeded>>

\* a collaborator call: its arguments, whether it returned a nil error, and for a listing the names returned
Call(o, k, n, jn, b, ok, l) == [op |-> o, key |-> k, name |-> n, jobName |-> jn, buildID |-> b, ok |-> ok, listed |-> l]

\* lenses.Artifact values: a storage handle or a pod log handle
NoArt == [from |-> "", key |-> <<>>, name |-> "", jobName |-> <<>>, buildID |-> <<>>]
GCSArt(k, n) == [from |-> "gcs", key |-> k, name |-> n, jobName |-> <<>>, buildID |-> <<>>]
PodLogArt(jn, b) == [from |-> "pod", key |-> <<>>, name |-> "", jobName |-> jn, buildID |-> b]

\* no call before
NoPrev == [op |-> "", src |-> <<>>, names |-> <<>>, calls |-> <<>>, ret |-> <<>>, retErr |-> ""]

Init ==
    /\ op = "" /\ src = <<>> /\ names = <<>> /\ pc = "idle"
    /\ keyType = <<>> /\ key = <<>> /\ gcsKey = <<>> /\ jobName = <<>> /\ buildID = <<>>
    /\ url = <<>> /\ prefix = <<>> /\ pPath = <<>> /\ pErr = ""
    /\ i = 1 /\ art = NoArt /\ arts = <<>> /\ podLogNeeded = FALSE
    /\ ret = <<>> /\ retErr = "" /\ calls = <<>> /\ logs = <<>>
    /\ prev = NoPrev

\* ---- ListArtifacts, lines 29-45: parse and switch on the key type -------------
\* where the call goes after the switch: [pc, gcsKey, retErr]
ListSwitch(s) ==
    LET p == splitSrc(s)
    IN  IF p.err THEN [pc |-> "done", gcsKey |-> <<>>, retErr |-> "parse"]
        ELSE IF p.keyType = gcsKeyType THEN [pc |-> "artifacts", gcsKey |-> p.key, retErr |-> ""]
        ELSE IF p.keyType = prowKeyType THEN [pc |-> "prowToGCS", gcsKey |-> <<>>, retErr |-> ""]
        ELSE [pc |-> "done", gcsKey |-> <<>>, retErr |-> "keytype"]

ListArtifacts(s) ==
    /\ pc = "idle"
    /\ op' = "List" /\ src' = s /\ names' = <<>>
    /\ LET p == splitSrc(s)
           sw == ListSwitch(s)
       IN  /\ keyType' = p.keyType /\ key' = p.key
           /\ gcsKey' = sw.gcsKey
           /\ pc' = sw.pc
           /\ ret' = <<>> /\ retErr' = sw.retErr
    /\ UNCHANGED <<jobName, buildID, prowVars, loopVars, calls, logs, prev>>

\* ---- prowToGCS, lines 66-85 ---------------------------------------------------
\* variant: strings.TrimPrefix without the HasPrefix check
prowToGCSPath_TrimPrefix(u, pf) ==
    IF ~HasPrefix(u, pf) THEN [path |-> u, err |-> ""]
    ELSE [path |-> SubSeq(u, Len(pf) + 1, Len(u)), err |-> ""]

\* lines 79-84: the returned (string, error) for a job URL and the configured prefix
prowToGCSPath(u, pf) ==
    IF ~HasPrefix(u, pf) THEN [path |-> <<>>, err |-> "prefix"]
    ELSE [path |-> SubSeq(u, Len(pf) + 1, Len(u)), err |-> ""]

prowToGCS ==
    /\ pc = "prowToGCS"
    /\ IF Len(Split(key)) # 2
       THEN /\ url' = <<>> /\ prefix' = <<>> /\ pPath' = <<>> /\ pErr' = "format"
            /\ calls' = calls
       ELSE \E ok \in BOOLEAN, u \in URLs, pf \in Prefixes :
            /\ calls' = Append(calls, Call("GetProwJob", <<>>, "", Split(key)[1], Split(key)[2], ok, <<>>))
            /\ IF ~ok
               THEN url' = <<>> /\ prefix' = <<>> /\ pPath' = <<>> /\ pErr' = "lookup"
               ELSE /\ url' = u /\ prefix' = pf
                    /\ pPath' = prowToGCSPath(u, pf).path
                    /\ pErr' = prowToGCSPath(u, pf).err
    /\ pc' = "prowToGCS_ret"
    /\ UNCHANGED <<argVars, keyType, key, gcsKey, jobName, buildID, loopVars, ret, retErr, logs>>

\* variant: the caller returns the error of prowToGCS
prowToGCSReturn_Abort ==
    /\ pc = "prowToGCS_ret"
    /\ gcsKey' = pPath
    /\ logs' = IF pErr # "" THEN Append(logs, "resolve") ELSE logs
    /\ pc' = IF pErr # "" THEN "done" ELSE IF op = "List" THEN "artifacts" ELSE "loop"
    /\ retErr' = IF pErr # "" THEN "resolve" ELSE retErr
    /\ url' = <<>> /\ prefix' = <<>> /\ pPath' = <<>> /\ pErr' = ""
    /\ UNCHANGED <<argVars, keyType, key, jobName, buildID, loopVars, ret, calls>>

\* lines 39-41 and 116-118: the caller takes the path and only logs the error
prowToGCSReturn ==
    /\ pc = "prowToGCS_ret"
    /\ gcsKey' = pPath
    /\ logs' = IF pErr # "" THEN Append(logs, "resolve") ELSE logs
    /\ pc' = IF op = "List" THEN "artifacts" ELSE "loop"
    /\ url' = <<>> /\ prefix' = <<>> /\ pPath' = <<>> /\ pErr' = ""
    /\ UNCHANGED <<argVars, keyType, key, jobName, buildID, loopVars, ret, retErr, calls>>

\* ---- ListArtifacts, lines 46-62 -----------------------------------------------
\* variant: the name is appended without looking at logFound
ListResult_AlwaysAppend(artifactNames, err) == Append(artifactNames, LogName)

\* lines 47-62: the returned names for the listing (artifactNames, err)
ListResult(artifactNames, err) ==
    IF err \/ ~(\E n \in 1..Len(artifactNames) : artifactNames[n] = LogName)
    THEN Append(artifactNames, LogName)
    ELSE artifactNames

\* variant: the listing error is returned to the caller
GCSArtifacts_ErrReturned ==
    /\ pc = "artifacts"
    /\ \E l \in Listings, ok \in BOOLEAN :
        /\ calls' = Append(calls, Call("artifacts", gcsKey, "", <<>>, <<>>, ok, l))
        /\ logs' = IF ~ok THEN Append(logs, "list") ELSE logs
        /\ ret' = IF ok THEN ListResult(l, FALSE) ELSE <<>>
        /\ retErr' = IF ok THEN "" ELSE "list"
    /\ pc' = "done"
    /\ UNCHANGED <<argVars, keyType, key, gcsKey, jobName, buildID, prowVars, loopVars>>

GCSArtifacts ==
    /\ pc = "artifacts"
    /\ \E l \in Listings, ok \in BOOLEAN :
        /\ calls' = Append(calls, Call("artifacts", gcsKey, "", <<>>, <<>>, ok, l))
        /\ logs' = IF ~ok THEN Append(logs, "list") ELSE logs
        /\ ret' = ListResult(l, ~ok)
    /\ retErr' = ""
    /\ pc' = "done"
    /\ UNCHANGED <<argVars, keyType, key, gcsKey, jobName, buildID, prowVars, loopVars>>

\* ---- FetchArtifacts, lines 89-121: parse and switch on the key type -----------
\* variant: a storage key with fewer than two segments is rejected like a job key
FetchSwitch_GcsKeyFatal(s) ==
    LET p == splitSrc(s)
    IN
        IF p.err
        THEN [pc |-> "done", gcsKey |-> <<>>, jobName |-> <<>>, buildID |-> <<>>, retErr |-> "parse", warn |-> FALSE]
        ELSE IF p.keyType = gcsKeyType
        THEN LET k == TrimSuffix(p.key)
                 parts == Split(k)
             IN  IF Len(parts) < 2
                 THEN [pc |-> "done", gcsKey |-> <<>>, jobName |-> <<>>, buildID |-> <<>>, retErr |-> "key", warn |-> TRUE]
                 ELSE [pc |-> "loop", gcsKey |-> k, jobName |-> parts[Len(parts) - 1], buildID |-> parts[Len(parts)], retErr |-> "", warn |-> FALSE]
        ELSE IF p.keyType = prowKeyType
        THEN LET parts == Split(p.key)
             IN  IF Len(parts) # 2
                 THEN [pc |-> "done", gcsKey |-> <<>>, jobName |-> <<>>, buildID |-> <<>>, retErr |-> "key", warn |-> FALSE]
                 ELSE [pc |-> "prowToGCS", gcsKey |-> <<>>, jobName |-> parts[1], buildID |-> parts[2], retErr |-> "", warn |-> FALSE]
        ELSE [pc |-> "done", gcsKey |-> <<>>, jobName |-> <<>>, buildID |-> <<>>, retErr |-> "keytype", warn |-> FALSE]

\* variant: a job key with more than two parts is accepted
FetchSwitch_AtLeastTwo(s) ==
    LET p == splitSrc(s)
    IN
        IF p.err
        THEN [pc |-> "done", gcsKey |-> <<>>, jobName |-> <<>>, buildID |-> <<>>, retErr |-> "parse", warn |-> FALSE]
        ELSE IF p.keyType = gcsKeyType
        THEN LET k == TrimSuffix(p.key)
                 parts == Split(k)
             IN  IF Len(parts) < 2
                 THEN [pc |-> "loop", gcsKey |-> k, jobName |-> <<>>, buildID |-> <<>>, retErr |-> "", warn |-> TRUE]
                 ELSE [pc |-> "loop", gcsKey |-> k, jobName |-> parts[Len(parts) - 1], buildID |-> parts[Len(parts)], retErr |-> "", warn |-> FALSE]
        ELSE IF p.keyType = prowKeyType
        THEN LET parts == Split(p.key)
             IN  IF Len(parts) < 2
                 THEN [pc |-> "done", gcsKey |-> <<>>, jobName |-> <<>>, buildID |-> <<>>, retErr |-> "key", warn |-> FALSE]
                 ELSE [pc |-> "prowToGCS", gcsKey |-> <<>>, jobName |-> parts[1], buildID |-> parts[2], retErr |-> "", warn |-> FALSE]
        ELSE [pc |-> "done", gcsKey |-> <<>>, jobName |-> <<>>, buildID |-> <<>>, retErr |-> "keytype", warn |-> FALSE]

\* where the call goes after the switch: [pc, gcsKey, jobName, buildID, retErr, warn]
FetchSwitch(s) ==
    LET p == splitSrc(s)
    IN
        IF p.err
        THEN [pc |-> "done", gcsKey |-> <<>>, jobName |-> <<>>, buildID |-> <<>>, retErr |-> "parse", warn |-> FALSE]
        ELSE IF p.keyType = gcsKeyType
        THEN LET k == TrimSuffix(p.key)
                 parts == Split(k)
             IN  IF Len(parts) < 2
                 THEN [pc |-> "loop", gcsKey |-> k, jobName |-> <<>>, buildID |-> <<>>, retErr |-> "", warn |-> TRUE]
                 ELSE [pc |-> "loop", gcsKey |-> k, jobName |-> parts[Len(parts) - 1], buildID |-> parts[Len(parts)], retErr |-> "", warn |-> FALSE]
        ELSE IF p.keyType = prowKeyType
        THEN LET parts == Split(p.key)
             IN  IF Len(parts) # 2
                 THEN [pc |-> "done", gcsKey |-> <<>>, jobName |-> <<>>, buildID |-> <<>>, retErr |-> "key", warn |-> FALSE]
                 ELSE [pc |-> "prowToGCS", gcsKey |-> <<>>, jobName |-> parts[1], buildID |-> parts[2], retErr |-> "", warn |-> FALSE]
        ELSE [pc |-> "done", gcsKey |-> <<>>, jobName |-> <<>>, buildID |-> <<>>, retErr |-> "keytype", warn |-> FALSE]

\* variant: the result slice outlives the call
FetchArtifacts_StaleArts(s, artifactNames) ==
    /\ pc = "idle"
    /\ op' = "Fetch" /\ src' = s /\ names' = artifactNames
    /\ LET p == splitSrc(s)
           sw == FetchSwitch(s)
       IN  /\ keyType' = p.keyType /\ key' = p.key
           /\ gcsKey' = sw.gcsKey
           /\ jobName' = sw.jobName
           /\ buildID' = sw.buildID
           /\ logs' = IF sw.warn THEN Append(logs, "gcskey") ELSE logs
           /\ pc' = sw.pc
           /\ retErr' = sw.retErr
    /\ i' = 1 /\ art' = NoArt /\ arts' = arts /\ podLogNeeded' = FALSE
    /\ ret' = <<>>
    /\ UNCHANGED <<prowVars, calls, prev>>

FetchArtifacts(s, artifactNames) ==
    /\ pc = "idle"
    /\ op' = "Fetch" /\ src' = s /\ names' = artifactNames
    /\ LET p == splitSrc(s)
           sw == FetchSwitch(s)
       IN  /\ keyType' = p.keyType /\ key' = p.key
           /\ gcsKey' = sw.gcsKey
           /\ jobName' = sw.jobName
           /\ buildID' = sw.buildID
           /\ logs' = IF sw.warn THEN Append(logs, "gcskey") ELSE logs
           /\ pc' = sw.pc
           /\ retErr' = sw.retErr
    /\ i' = 1 /\ art' = NoArt /\ arts' = <<>> /\ podLogNeeded' = FALSE
    /\ ret' = <<>>
    /\ UNCHANGED <<prowVars, calls, prev>>

\* ---- FetchArtifacts, lines 123-141: the loop over artifactNames -----------------
\* variant: a failure of any name asks for the pod log
FailedNeedsPodLog_AnyName(name, needed) == TRUE

\* lines 132-139: a name whose handle or size failed sets the flag or is logged
FailedNeedsPodLog(name, needed) == IF name = LogName THEN TRUE ELSE needed

FailedLogs(name, l) == IF name = LogName THEN l ELSE Append(l, "artifact")

\* variant: Size is called on the handle whatever artifact returned
GCSArtifact_ProbeAlways ==
    /\ pc = "loop" /\ i <= Len(names)
    /\ \E ok \in BOOLEAN :
        /\ calls' = Append(calls, Call("artifact", gcsKey, names[i], <<>>, <<>>, ok, <<>>))
    /\ art' = GCSArt(gcsKey, names[i])
    /\ pc' = "Size"
    /\ UNCHANGED <<i, podLogNeeded, logs>>
    /\ UNCHANGED <<argVars, keyType, key, gcsKey, jobName, buildID, prowVars, arts, ret, retErr>>

\* line 125, and lines 132-139 when it fails
GCSArtifact ==
    /\ pc = "loop" /\ i <= Len(names)
    /\ \E ok \in BOOLEAN :
        /\ calls' = Append(calls, Call("artifact", gcsKey, names[i], <<>>, <<>>, ok, <<>>))
        /\ IF ok
           THEN /\ art' = GCSArt(gcsKey, names[i])
                /\ pc' = "Size"
                /\ UNCHANGED <<i, podLogNeeded, logs>>
           ELSE /\ podLogNeeded' = FailedNeedsPodLog(names[i], podLogNeeded)
                /\ logs' = FailedLogs(names[i], logs)
                /\ i' = i + 1
                /\ UNCHANGED <<art, pc>>
    /\ UNCHANGED <<argVars, keyType, key, gcsKey, jobName, buildID, prowVars, arts, ret, retErr>>

\* variant: the handle is appended whatever Size returns
ArtSize_NoCheck ==
    /\ pc = "Size"
    /\ \E ok \in BOOLEAN :
        /\ calls' = Append(calls, Call("Size", art.key, art.name, <<>>, <<>>, ok, <<>>))
        /\ arts' = Append(arts, art)
        /\ UNCHANGED <<podLogNeeded, logs>>
    /\ i' = i + 1
    /\ art' = NoArt
    /\ pc' = "loop"
    /\ UNCHANGED <<argVars, keyType, key, gcsKey, jobName, buildID, prowVars, ret, retErr>>

\* line 130, then lines 132-140
ArtSize ==
    /\ pc = "Size"
    /\ \E ok \in BOOLEAN :
        /\ calls' = Append(calls, Call("Size", art.key, art.name, <<>>, <<>>, ok, <<>>))
        /\ IF ok
           THEN /\ arts' = Append(arts, art)
                /\ UNCHANGED <<podLogNeeded, logs>>
           ELSE /\ podLogNeeded' = FailedNeedsPodLog(names[i], podLogNeeded)
                /\ logs' = FailedLogs(names[i], logs)
                /\ UNCHANGED arts
    /\ i' = i + 1
    /\ art' = NoArt
    /\ pc' = "loop"
    /\ UNCHANGED <<argVars, keyType, key, gcsKey, jobName, buildID, prowVars, ret, retErr>>

\* ---- FetchArtifacts, lines 143-153: pod log fallback and return ------------------
\* variant: job name and build id are the last two segments of the resolved path
PathJobName == IF Len(Split(gcsKey)) < 2 THEN <<>> ELSE Split(gcsKey)[Len(Split(gcsKey)) - 1]

PathBuildID == IF Len(Split(gcsKey)) < 2 THEN <<>> ELSE Split(gcsKey)[Len(Split(gcsKey))]

FetchFinish_FromPath ==
    /\ pc = "loop" /\ i > Len(names)
    /\ IF podLogNeeded
       THEN \E ok \in BOOLEAN :
            /\ calls' = Append(calls, Call("podlog", <<>>, "", PathJobName, PathBuildID, ok, <<>>))
            /\ ret' = IF ok THEN Append(arts, PodLogArt(PathJobName, PathBuildID)) ELSE arts
            /\ logs' = IF ok THEN Append(logs, "duration") ELSE Append(Append(logs, "podlog"), "duration")
       ELSE /\ ret' = arts
            /\ logs' = Append(logs, "duration")
            /\ calls' = calls
    /\ retErr' = ""
    /\ pc' = "done"
    /\ UNCHANGED <<argVars, keyType, key, gcsKey, jobName, buildID, prowVars, loopVars>>

\* variant: one pod log is fetched for each failure of "build-log.txt"
LogFailures == Cardinality({n \in 1..Len(calls) : calls[n].op \in {"artifact", "Size"} /\ calls[n].name = LogName /\ ~calls[n].ok})

FetchFinish_PerFailure ==
    /\ pc = "loop" /\ i > Len(names)
    /\ \E ok \in BOOLEAN :
        /\ calls' = calls \o [m \in 1..LogFailures |-> Call("podlog", <<>>, "", jobName, buildID, ok, <<>>)]
        /\ ret' = IF ok THEN arts \o [m \in 1..LogFailures |-> PodLogArt(jobName, buildID)] ELSE arts
        /\ logs' = IF ok \/ LogFailures = 0 THEN Append(logs, "duration") ELSE Append(Append(logs, "podlog"), "duration")
    /\ retErr' = ""
    /\ pc' = "done"
    /\ UNCHANGED <<argVars, keyType, key, gcsKey, jobName, buildID, prowVars, loopVars>>

\* variant: the pod log is fetched as soon as the flag is set, and the call returns
FetchFinish_Early ==
    /\ pc = "loop" /\ (i > Len(names) \/ podLogNeeded)
    /\ IF podLogNeeded
       THEN \E ok \in BOOLEAN :
            /\ calls' = Append(calls, Call("podlog", <<>>, "", jobName, buildID, ok, <<>>))
            /\ ret' = IF ok THEN Append(arts, PodLogArt(jobName, buildID)) ELSE arts
            /\ logs' = IF ok THEN Append(logs, "duration") ELSE Append(Append(logs, "podlog"), "duration")
       ELSE /\ ret' = arts
            /\ logs' = Append(logs, "duration")
            /\ calls' = calls
    /\ retErr' = ""
    /\ pc' = "done"
    /\ UNCHANGED <<argVars, keyType, key, gcsKey, jobName, buildID, prowVars, loopVars>>

\* variant: a failed pod log fetch returns before the duration is logged
FetchFinish_NoDurationOnPodFail ==
    /\ pc = "loop" /\ i > Len(names)
    /\ IF podLogNeeded
       THEN \E ok \in BOOLEAN :
            /\ calls' = Append(calls, Call("podlog", <<>>, "", jobName, buildID, ok, <<>>))
            /\ ret' = IF ok THEN Append(arts, PodLogArt(jobName, buildID)) ELSE arts
            /\ logs' = IF ok THEN Append(logs, "duration") ELSE Append(logs, "podlog")
       ELSE /\ ret' = arts
            /\ logs' = Append(logs, "duration")
            /\ calls' = calls
    /\ retErr' = ""
    /\ pc' = "done"
    /\ UNCHANGED <<argVars, keyType, key, gcsKey, jobName, buildID, prowVars, loopVars>>

FetchFinish ==
    /\ pc = "loop" /\ i > Len(names)
    /\ IF podLogNeeded
       THEN \E ok \in BOOLEAN :
            /\ calls' = Append(calls, Call("podlog", <<>>, "", jobName, buildID, ok, <<>>))
            /\ ret' = IF ok THEN Append(arts, PodLogArt(jobName, buildID)) ELSE arts
            /\ logs' = IF ok THEN Append(logs, "duration") ELSE Append(Append(logs, "podlog"), "duration")
       ELSE /\ ret' = arts
            /\ logs' = Append(logs, "duration")
            /\ calls' = calls
    /\ retErr' = ""
    /\ pc' = "done"
    /\ UNCHANGED <<argVars, keyType, key, gcsKey, jobName, buildID, prowVars, loopVars>>

\* the call has returned; the next call starts from fresh locals
Return ==
    /\ pc = "done"
    /\ op' = "" /\ src' = <<>> /\ names' = <<>> /\ pc' = "idle"
    /\ keyType' = <<>> /\ key' = <<>> /\ gcsKey' = <<>> /\ jobName' = <<>> /\ buildID' = <<>>
    /\ url' = <<>> /\ prefix' = <<>> /\ pPath' = <<>> /\ pErr' = ""
    /\ i' = 1 /\ art' = NoArt /\ arts' = <<>> /\ podLogNeeded' = FALSE
    /\ ret' = <<>> /\ retErr' = "" /\ calls' = <<>> /\ logs' = <<>>
    /\ UNCHANGED prev

Next ==
    \/ pc = "idle" /\ \E s \in Srcs : ListArtifacts(s)
    \/ pc = "idle" /\ \E s \in Srcs, n \in NameLists : FetchArtifacts(s, n)
    \/ prowToGCS
    \/ prowToGCSReturn
    \/ GCSArtifacts
    \/ GCSArtifact
    \/ ArtSize
    \/ FetchFinish
    \/ Return

Spec == Init /\ [][Next]_vars

\* ---- the same call made again ------------------------------------------------
\* The call returns: its arguments, collaborator calls and result are kept in
\* prev.  The locals of the returned call are dead; the next call assigns its own.
ReturnRepeat ==
    /\ pc = "done"
    /\ prev' = [op |-> op, src |-> src, names |-> names, calls |-> calls, ret |-> ret, retErr |-> retErr]
    /\ pc' = "idle"
    /\ calls' = <<>> /\ logs' = <<>>
    /\ UNCHANGED <<op, src, names, keyType, key, gcsKey, jobName, buildID, prowVars, loopVars, ret, retErr>>

\* the collaborators answer the repeated call as they answered the call before
SameAnswers == prev.op = "" \/ (Len(calls) <= Len(prev.calls) /\ calls = SubSeq(prev.calls, 1, Len(calls)))

\* the job agent and the configuration answer as before: the repeated call
\* resolves the job to the path that the call before handed to storage
SameJob == prev.op = "" \/ Len(prev.calls) <= Len(calls) \/ prev.calls[Len(calls) + 1].op = "podlog" \/ prev.calls[Len(calls) + 1].key = pPath

NextRepeat ==
    \/ pc = "idle" /\ prev.op = "" /\ \E s \in RepeatSrcs : ListArtifacts(s)
    \/ pc = "idle" /\ prev.op = "" /\ \E s \in RepeatSrcs, n \in NameLists : FetchArtifacts(s, n)
    \/ pc = "idle" /\ prev.op = "List" /\ ListArtifacts(prev.src)
    \/ pc = "idle" /\ prev.op = "Fetch" /\ FetchArtifacts(prev.src, prev.names)
    \/ prowToGCS /\ SameAnswers' /\ SameJob'
    \/ prowToGCSReturn
    \/ GCSArtifacts /\ SameAnswers'
    \/ GCSArtifact /\ SameAnswers'
    \/ ArtSize /\ SameAnswers'
    \/ FetchFinish /\ SameAnswers'
    \/ ReturnRepeat

SpecRepeat == Init /\ [][NextRepeat]_vars

TypeOK ==
    /\ op \in {"", "List", "Fetch"}
    /\ pc \in {"idle", "prowToGCS", "prowToGCS_ret", "artifacts", "loop", "Size", "done"}
    /\ src \in Srcs \/ src = <<>>
    /\ i \in 1..(Len(names) + 1)

\* ---- vocabulary of the properties ----------------------------------------------
HasSep(s) == \E n \in 1..Len(s) : s[n] = Sep
SepCount(s) == Cardinality({n \in 1..Len(s) : s[n] = Sep})
StartsWith(s, p) == Len(p) <= Len(s) /\ SubSeq(s, 1, Len(p)) = p
IsGCSRef(s) == StartsWith(s, gcsKeyType \o <<Sep>>)
IsProwRef(s) == StartsWith(s, prowKeyType \o <<Sep>>)
Occurrences(l, x) == Cardinality({n \in 1..Len(l) : l[n] = x})
CallsOf(o) == {n \in 1..Len(calls) : calls[n].op = o}
Logged(tag) == \E n \in 1..Len(logs) : logs[n] = tag
Returned == pc = "done"
ReturnedOK == pc = "done" /\ retErr = ""

\* C1: for every accepted reference and every outcome of the storage listing
\* (also an error that comes with a non-empty list of names) the list returned
\* by ListArtifacts contains "build-log.txt" exactly once.
C1_LogExactlyOnce == (ReturnedOK /\ op = "List") => Occurrences(ret, LogName) = 1

\* C2: for a reference without "/" both ListArtifacts and FetchArtifacts return
\* a non-nil error and an empty result, whatever names are requested.
C2_NoSeparatorFails == (Returned /\ ~HasSep(src)) => (retErr # "" /\ ret = <<>>)

C2_Witness == Returned /\ op = "Fetch" /\ src = gcsKeyType /\ Len(names) = 2 /\ retErr # ""

\* C3 as stated: every reference that contains a "/" is listed without error,
\* whatever its kind tag.
C3_Original == (Returned /\ op = "List" /\ HasSep(src)) => retErr = ""

\* C3 amended: ListArtifacts returns no error for every reference that contains
\* a "/" and whose kind tag is one of the two key types, whatever the job
\* lookup, the prefix check and the listing return.
C3_ListFailsOnlyOnSeparatorOrKind == (Returned /\ op = "List" /\ HasSep(src) /\ (IsGCSRef(src) \/ IsProwRef(src))) => retErr = ""

C3_Witness == ReturnedOK /\ op = "List" /\ IsProwRef(src) /\ Logged("resolve") /\ Logged("list")

\* C4 as stated: FetchArtifacts returns an error only for a reference without
\* "/" or a job-addressed reference whose key does not split in two.
C4_Original == (Returned /\ op = "Fetch" /\ retErr # "") => (~HasSep(src) \/ (IsProwRef(src) /\ SepCount(src) # 2))

\* C4 amended: FetchArtifacts returns an error only for a reference without
\* "/", a reference whose kind tag is neither key type, or a job-addressed
\* reference whose key does not split in two; every other input returns no error.
C4_FetchFailsOnlyOnMalformed == (Returned /\ op = "Fetch" /\ retErr # "") => (~HasSep(src) \/ ~(IsGCSRef(src) \/ IsProwRef(src)) \/ (IsProwRef(src) /\ SepCount(src) # 2))

C4_Witness == ReturnedOK /\ op = "Fetch" /\ Logged("resolve") /\ Logged("artifact") /\ Logged("podlog") /\ ret = <<>>

LogNameFailed == \E n \in CallsOf("artifact") \cup CallsOf("Size") : calls[n].name = LogName /\ ~calls[n].ok

\* C5: the pod-log collaborator is called exactly when some requested name is
\* "build-log.txt" and its handle creation or its size probe failed.
C5_FallbackIffLogFailed == (op = "Fetch") => ((CallsOf("podlog") # {} => LogNameFailed) /\ ((ReturnedOK /\ LogNameFailed) => CallsOf("podlog") # {}))

C5_Witness == ReturnedOK /\ op = "Fetch" /\ CallsOf("podlog") # {} /\ (\E n \in CallsOf("Size") : calls[n].name = LogName /\ ~calls[n].ok) /\ (\E n \in CallsOf("Size") : calls[n].name = "a.txt" /\ calls[n].ok)

NthArtifactCall(k) == CHOOSE n \in CallsOf("artifact") : Cardinality({m \in CallsOf("artifact") : m <= n}) = k
NameSucceeded(k) == LET n == NthArtifactCall(k) IN calls[n].ok /\ n < Len(calls) /\ calls[n + 1].op = "Size" /\ calls[n + 1].ok
RECURSIVE SucceededHandles(_)
SucceededHandles(k) == IF k = 0 THEN <<>> ELSE SucceededHandles(k - 1) \o (IF NameSucceeded(k) THEN <<GCSArt(calls[NthArtifactCall(k)].key, names[k])>> ELSE <<>>)
FallbackHandle == IF \E n \in CallsOf("podlog") : calls[n].ok THEN <<PodLogArt(calls[Len(calls)].jobName, calls[Len(calls)].buildID)>> ELSE <<>>

\* C6: the result of a successful FetchArtifacts is the storage handles of the
\* names whose handle creation and size probe both succeeded, in request
\* order, followed by the pod-log handle when the fallback succeeded.
C6_ResultIsSucceededInOrder == (ReturnedOK /\ op = "Fetch") => (Cardinality(CallsOf("artifact")) = Len(names) /\ ret = SucceededHandles(Len(names)) \o FallbackHandle)

C6_Witness == ReturnedOK /\ op = "Fetch" /\ names = <<LogName, "a.txt">> /\ Len(ret) = 2 /\ ret[1].name = "a.txt" /\ ret[2].from = "pod"

\* C7: the job name and build id passed to the pod-log collaborator for a
\* job-addressed reference are the two components of the reference itself,
\* also when the job could not be resolved to a storage path.
C7_FallbackUsesReference == \A n \in CallsOf("podlog") : IsProwRef(src) => (src = prowKeyType \o <<Sep>> \o calls[n].jobName \o <<Sep>> \o calls[n].buildID /\ ~HasSep(calls[n].jobName) /\ ~HasSep(calls[n].buildID))

C7_Witness == CallsOf("podlog") # {} /\ IsProwRef(src) /\ Logged("resolve") /\ Len(jobName) # Len(buildID)

\* C8: when the listing succeeds, ListArtifacts returns the listed names
\* unchanged and in order, with "build-log.txt" added at the end only when
\* the listing did not contain it.
C8_ListingKept == \A n \in CallsOf("artifacts") : (ReturnedOK /\ calls[n].ok) => ret = (IF Occurrences(calls[n].listed, LogName) > 0 THEN calls[n].listed ELSE calls[n].listed \o <<LogName>>)

C8_Witness == ReturnedOK /\ op = "List" /\ ret = <<"a.txt", LogName>> /\ (\E n \in CallsOf("artifacts") : calls[n].ok /\ calls[n].listed = <<"a.txt">>)

C10_PrefixStripped == (pc = "prowToGCS_ret" /\ calls # <<>> /\ calls[Len(calls)].ok) => (IF StartsWith(url, prefix) THEN pErr = "" /\ prefix \o pPath = url ELSE pErr # "" /\ pPath = <<>>)

C10_Witness == pc = "prowToGCS_ret" /\ pErr = "" /\ Len(prefix) = 2 /\ Len(pPath) > 0 /\ prefix \o pPath = url

\* the key of a storage-addressed reference, and a string without its trailing separators
DirectKey(s) == SubSeq(s, Len(gcsKeyType) + 2, Len(s))
RECURSIVE TrimAllSep(_)
TrimAllSep(s) == IF Len(s) > 0 /\ s[Len(s)] = Sep THEN TrimAllSep(SubSeq(s, 1, Len(s) - 1)) ELSE s
StorageCalls == CallsOf("artifacts") \cup CallsOf("artifact") \cup CallsOf("Size")

\* C11: for a storage-addressed reference the path handed to the storage
\* collaborator, by ListArtifacts and by FetchArtifacts alike, is the key with
\* its trailing separators trimmed, so it never ends in "/".
C11_DirectPathTrimmed == IsGCSRef(src) => \A n \in StorageCalls : calls[n].key = TrimAllSep(DirectKey(src))

\* C13: one FetchArtifacts call asks the pod-log collaborator at most once,
\* also when "build-log.txt" is requested several times and fails each time.
C13_AtMostOneFallback == Cardinality(CallsOf("podlog")) <= 1

C13_Witness == ReturnedOK /\ op = "Fetch" /\ names = <<LogName, LogName>> /\ Cardinality(CallsOf("podlog")) = 1 /\ Cardinality({n \in CallsOf("artifact") \cup CallsOf("Size") : ~calls[n].ok}) = 2

StorageHandleCount(l, x) == Cardinality({m \in 1..Len(l) : l[m].from = "gcs" /\ l[m].name = x})
SizeOKCount(x) == Cardinality({n \in CallsOf("Size") : calls[n].ok /\ calls[n].name = x})

\* C14: Size is only called on a handle that artifact returned without error,
\* and the storage handles collected are exactly those whose Size succeeded:
\* a name whose handle creation failed is neither probed nor included.
C14_ProbeAfterHandle ==
    (op = "Fetch") =>
        /\ \A n \in CallsOf("Size") : (n > 1 /\ calls[n - 1].op = "artifact" /\ calls[n - 1].ok /\ calls[n - 1].name = calls[n].name /\ calls[n - 1].key = calls[n].key)
        /\ \A x \in Names : StorageHandleCount(arts, x) = SizeOKCount(x)
        /\ ReturnedOK => (\A x \in Names : StorageHandleCount(ret, x) = SizeOKCount(x))

C14_Witness == ReturnedOK /\ op = "Fetch" /\ Len(names) = 2 /\ Len(ret) = 1 /\ ret[1].from = "gcs" /\ (\E n \in CallsOf("artifact") : ~calls[n].ok /\ calls[n].name = "a.txt") /\ Cardinality(CallsOf("Size")) = 1

\* C15: the pod log is fetched only after every requested name has been
\* processed, no storage call follows it, and for a job-addressed reference
\* the job lookup comes before every storage call.
C15_FallbackLast ==
    (op = "Fetch") =>
        /\ \A n \in CallsOf("podlog") : (n = Len(calls) /\ Cardinality(CallsOf("artifact")) = Len(names))
        /\ \A n \in CallsOf("podlog") : \A m \in CallsOf("artifact") : (calls[m].ok => calls[m + 1].op = "Size")
        /\ \A n \in CallsOf("GetProwJob") : n = 1
        /\ (IsProwRef(src) /\ StorageCalls # {}) => (calls[1].op = "GetProwJob")

C15_Witness == ReturnedOK /\ op = "Fetch" /\ IsProwRef(src) /\ names = <<LogName, "a.txt">> /\ CallsOf("podlog") = {5} /\ CallsOf("Size") = {4}

\* the key of a job-addressed reference
JobKey(s) == SubSeq(s, Len(prowKeyType) + 2, Len(s))

\* C16 as stated: a job key is accepted only when it splits into exactly two
\* non-empty components; keys such as "/123", "job/" or "/" are rejected.
C16_Original ==
    /\ (Returned /\ op = "Fetch" /\ IsProwRef(src) /\ retErr = "") => (SepCount(JobKey(src)) = 1 /\ jobName # <<>> /\ buildID # <<>>)
    /\ \A n \in CallsOf("GetProwJob") : (calls[n].jobName # <<>> /\ calls[n].buildID # <<>>)

\* C16 amended: a job key is accepted exactly when splitting it on "/" yields
\* two components, which may be empty: FetchArtifacts returns the key error,
\* and the resolver its format error without looking the job up, for every
\* other number of components and for no key with two.
C16_TwoComponents ==
    /\ (Returned /\ op = "Fetch" /\ IsProwRef(src)) => (retErr # "" <=> SepCount(JobKey(src)) # 1)
    /\ (pc = "prowToGCS_ret" /\ IsProwRef(src)) => (pErr = "format" <=> SepCount(JobKey(src)) # 1)
    /\ (pc = "prowToGCS_ret" /\ IsProwRef(src)) => (CallsOf("GetProwJob") = {} <=> SepCount(JobKey(src)) # 1)
    /\ \A n \in CallsOf("GetProwJob") : JobKey(src) = calls[n].jobName \o <<Sep>> \o calls[n].buildID

C16_Witness == ReturnedOK /\ op = "Fetch" /\ IsProwRef(src) /\ JobKey(src) = <<Sep>> /\ CallsOf("GetProwJob") = {1} /\ calls[1].jobName = <<>> /\ calls[1].buildID = <<>>

\* C17 as stated: every FetchArtifacts call logs its duration before it
\* returns, on error returns too.
C17_Original == (Returned /\ op = "Fetch") => Logged("duration")

\* C17 amended: FetchArtifacts logs its duration, as its last log entry,
\* before every return without error, whichever collaborator calls failed;
\* the error returns (no separator, malformed job key, unrecognized kind
\* tag) log no duration.
C17_DurationOnSuccess == (Returned /\ op = "Fetch") => (IF retErr = "" THEN Occurrences(logs, "duration") = 1 /\ logs[Len(logs)] = "duration" ELSE ~Logged("duration"))

C17_Witness == ReturnedOK /\ op = "Fetch" /\ Logged("resolve") /\ Logged("podlog") /\ logs[Len(logs)] = "duration"

\* C18: when ListArtifacts or FetchArtifacts returns an error, it has called
\* no collaborator: no job lookup, listing, handle creation, size probe or
\* pod-log fetch.
C18_ErrorBeforeCalls == (Returned /\ retErr # "") => calls = <<>>

C18_Witness == Returned /\ op = "Fetch" /\ IsProwRef(src) /\ SepCount(JobKey(src)) = 2 /\ retErr # "" /\ Len(names) = 2 /\ calls = <<>>

\* a key without one trailing separator
DropOneSep(s) == IF s # <<>> /\ s[Len(s)] = Sep THEN SubSeq(s, 1, Len(s) - 1) ELSE s

\* C19: for a storage-addressed reference the job name and build id given to
\* the pod-log collaborator are the last two "/"-separated segments of the
\* key without one trailing "/"; with fewer than two segments the call does
\* not fail and both are empty.
C19_DirectFallbackNames ==
    (op = "Fetch" /\ IsGCSRef(src)) =>
        /\ Returned => retErr = ""
        /\ \A n \in CallsOf("podlog") :
            LET k == DropOneSep(DirectKey(src))
                jn == calls[n].jobName
                b == calls[n].buildID
            IN  IF HasSep(k)
                THEN /\ ~HasSep(jn) /\ ~HasSep(b)
                     /\ Len(jn) + Len(b) + 1 <= Len(k)
                     /\ SubSeq(k, Len(k) - Len(jn) - Len(b), Len(k)) = jn \o <<Sep>> \o b
                     /\ (Len(jn) + Len(b) + 1 < Len(k) => k[Len(k) - Len(jn) - Len(b) - 1] = Sep)
                ELSE jn = <<>> /\ b = <<>>
        /\ (ReturnedOK /\ LogNameFailed) => CallsOf("podlog") # {}

C19_Witness == ReturnedOK /\ op = "Fetch" /\ src = gcsKeyType \o <<Sep, "j", Sep>> /\ CallsOf("podlog") # {} /\ calls[Len(calls)].jobName = <<>> /\ calls[Len(calls)].buildID = <<>>

\* C12: a call of ListArtifacts or FetchArtifacts made again with the same
\* arguments, to which the collaborators give the same answers, returns the
\* same names or handles and the same error outcome as the call before.
C12_RepeatedCallSameResult == (Returned /\ prev.op = op /\ prev.src = src /\ prev.names = names /\ prev.calls = calls) => (ret = prev.ret /\ retErr = prev.retErr)

C12_Witness == ReturnedOK /\ op = "Fetch" /\ prev.op = "Fetch" /\ prev.src = src /\ prev.names = names /\ prev.calls = calls /\ IsProwRef(src) /\ Len(ret) = 2 /\ ret[2].from = "pod" /\ ret = prev.ret

====
